---- MODULE Spec2Model ----
(***************************************************************************)
(* Model of streamlit_app.py: acquisition of the daily trace files, the    *)
(* flight summary loop, the flight_id assignment used for the map, and the *)
(* nearest-airport resolver.                                               *)
(*                                                                         *)
(* Strings are sequences of one-character strings, so that strip() and the *)
(* label f"{name}, {municipality}" are computed.  Timestamps are integer   *)
(* seconds; coordinates are integer tenths of a degree, so a squared       *)
(* distance is in hundredths of a square degree and 0.5**2 is 5*5.         *)
(***************************************************************************)
EXTENDS Integers, Sequences, FiniteSets, TLC

VARIABLES
    pc,                 \* position in the script
    airports_csv,       \* the airport table as loaded (line 79)
    airports_df,        \* the airport table after dropna (line 84)
    url_idx,            \* number of daily URLs already requested
    all_records,        \* records appended by fetch_flight_data_for_aircraft
    flight_df,          \* the sorted frame with its time_diff column
    i,                  \* loop variable of the summary loop (0-based)
    flight_start_index, \* start of the segment being collected (0-based)
    segments,           \* history: the slices [start, stop) cut by the summary loop
    flight_summaries,   \* rows of the flight summary
    flight_id,          \* the flight_id column used for the map
    query,              \* the coordinate last handed to the resolver
    result              \* what the resolver returned for it

vars == <<pc, airports_csv, airports_df, url_idx, all_records, flight_df,
          i, flight_start_index, segments, flight_summaries, flight_id,
          query, result>>

-----------------------------------------------------------------------------
(* Bounds of the model *)

\* number of daily trace URLs requested (the program requests 238)
NumUrls == 2
\* total number of position reports acquired over all files
MaxRecords == 3
\* number of rows of the airport table handed to the resolver specification
MaxAirports == 2

-----------------------------------------------------------------------------
(* Values *)

\* Python None in an object column; no string of characters equals it
None == <<"<None>">>
\* the NaN that shift() puts in front of an object column
NaN == <<"<NaN>">>
\* a missing number (a float NaN: an empty csv cell, the first row of diff());
\* a reserved integer no coordinate and no time difference takes
NaN_float == 0 - 99999

\* "Unknown Airfield or Location"
SENTINEL ==
    <<"U", "n", "k", "n", "o", "w", "n", " ", "A", "i", "r", "f", "i", "e", "l", "d",
      " ", "o", "r", " ", "L", "o", "c", "a", "t", "i", "o", "n">>
\* the exception idxmin() raises on an empty Series
ValueError == <<"<ValueError>">>

Gap == 4 * 3600
Threshold == 5 * 5

\* pd.isna / pd.notna on a cell of an object column
isna(x) == x = None \/ x = NaN
notna(x) == ~isna(x)

\* x > y on floats: every comparison with NaN is False
Gt(x, y) == x # NaN_float /\ y # NaN_float /\ x > y
Lt(x, y) == x # NaN_float /\ y # NaN_float /\ x < y

RECURSIVE lstrip(_)
lstrip(s) == IF s # <<>> /\ Head(s) = " " THEN lstrip(Tail(s)) ELSE s

RECURSIVE rstrip(_)
rstrip(s) == IF s # <<>> /\ s[Len(s)] = " " THEN rstrip(SubSeq(s, 1, Len(s) - 1)) ELSE s

\* str.strip()
strip(s) == rstrip(lstrip(s))

-----------------------------------------------------------------------------
(* Inputs *)

\* "flight" values of a trace record's details; None: the key is absent
RawFlights == {None, <<" ">>, <<"A">>, <<"B", " ">>}

\* seconds of the "timestamp" field of a daily trace file
FileTimestamps == {0, Gap + 1}

\* record[0], record[1], record[2] of the records of a "trace" array: seconds
\* since the file's timestamp, latitude, longitude
TracePoints == {<<0, 0, 0>>, <<Gap, 10, 0>>}

\* one record of a "trace" array, with record[8]["flight"]
TraceRecords ==
    {[off |-> p[1], lat |-> p[2], lon |-> p[3], flight |-> fl] :
        p \in TracePoints, fl \in RawFlights}

RECURSIVE SeqsUpTo(_, _)
SeqsUpTo(S, n) ==
    IF n = 0 THEN {<<>>}
    ELSE LET shorter == SeqsUpTo(S, n - 1)
         IN  shorter \cup {Append(s, x) : s \in {t \in shorter : Len(t) = n - 1}, x \in S}

\* rows of airports.csv; None is a missing cell
AirportRows ==
    { [name |-> <<"X">>, municipality |-> <<"P">>, latitude |-> 0, longitude |-> 0],
      [name |-> <<"Y">>, municipality |-> <<"Q">>, latitude |-> 6, longitude |-> 0],
      [name |-> None,    municipality |-> <<"P">>, latitude |-> 0, longitude |-> 0],
      [name |-> <<"Y">>, municipality |-> <<"Q">>, latitude |-> 6, longitude |-> NaN_float] }

QueryLats == {0, 3, 5, 12}
QueryLons == {0, 4}

-----------------------------------------------------------------------------
(* Helper functions of the program *)

\* airports_df.dropna(subset=['latitude', 'longitude', 'name', 'municipality'])
RECURSIVE dropna(_)
dropna(rows) ==
    IF rows = <<>> THEN <<>>
    ELSE LET r == Head(rows)
         IN  IF r.latitude = NaN_float \/ r.longitude = NaN_float
                \/ isna(r.name) \/ isna(r.municipality)
             THEN dropna(Tail(rows))
             ELSE <<r>> \o dropna(Tail(rows))

\* distances: (airports_df['latitude'] - lat)**2 + (airports_df['longitude'] - lon)**2
distances(lat, lon, df) ==
    [k \in 1..Len(df) |->
        (df[k].latitude - lat) * (df[k].latitude - lat)
      + (df[k].longitude - lon) * (df[k].longitude - lon)]

\* Series.min()
SeriesMin(d) == CHOOSE m \in {d[k] : k \in 1..Len(d)} : \A k \in 1..Len(d) : m <= d[k]

\* Series.idxmin(): the first row that attains the minimum
idxmin(d) == CHOOSE k \in 1..Len(d) : d[k] = SeriesMin(d) /\ \A j \in 1..(k - 1) : d[j] # d[k]

\* f"{airport['name']}, {airport['municipality']}"
Label(airport) == airport.name \o <<",", " ">> \o airport.municipality

\* find_nearest_airport with `<=` for `<`
find_nearest_airport_le(lat, lon, df) ==
    IF df = <<>> THEN ValueError
    ELSE LET d == distances(lat, lon, df)
             airport == df[idxmin(d)]
         IN  IF ~Gt(SeriesMin(d), Threshold) THEN Label(airport) ELSE SENTINEL

\* find_nearest_airport guarded against an empty table
find_nearest_airport_guarded(lat, lon, df) ==
    IF df = <<>> THEN SENTINEL
    ELSE LET d == distances(lat, lon, df)
             airport == df[idxmin(d)]
         IN  IF Lt(SeriesMin(d), Threshold) THEN Label(airport) ELSE SENTINEL

find_nearest_airport(lat, lon, df) ==
    IF df = <<>> THEN ValueError
    ELSE LET d == distances(lat, lon, df)
             airport == df[idxmin(d)]
         IN  IF Lt(SeriesMin(d), Threshold) THEN Label(airport) ELSE SENTINEL

-----------------------------------------------------------------------------
(* fetch_flight_data_for_aircraft: one daily trace file *)

\* `"flight" in details and details.get("flight").strip()`
HasFlight(record) == record.flight # None /\ strip(record.flight) # <<>>

\* the loop over data["trace"]: the records appended, current_callsign
\* carried from record to record within the file
RECURSIVE ParseTrace(_, _, _)
ParseTrace(file_timestamp, trace, current_callsign) ==
    IF trace = <<>> THEN <<>>
    ELSE LET record == Head(trace)
             callsign == IF HasFlight(record) THEN strip(record.flight)
                         ELSE current_callsign
         IN  << [flight_callsign    |-> callsign,
                 absolute_timestamp |-> file_timestamp + record.off,
                 latitude           |-> record.lat,
                 longitude          |-> record.lon,
                 \* history: the record's own callsign, None when blank
                 raw_callsign       |-> IF HasFlight(record) THEN strip(record.flight)
                                        ELSE None] >>
             \o ParseTrace(file_timestamp, Tail(trace), callsign)

-----------------------------------------------------------------------------
(* sort_values and diff *)

Perms(n) == {f \in [1..n -> 1..n] : \A a, b \in 1..n : a # b => f[a] # f[b]}

\* the orders sort_values(by='absolute_timestamp') can leave the rows in: the
\* default sort is not stable, so rows of equal timestamp come in any order
SortOrders(records) ==
    {f \in Perms(Len(records)) :
        \A a \in 1..(Len(records) - 1) :
            records[f[a]].absolute_timestamp <= records[f[a + 1]].absolute_timestamp}

\* the frame after sort_values under order f, with the time_diff column
SortedFrame(records, f) ==
    [k \in 1..Len(records) |->
        [flight_callsign    |-> records[f[k]].flight_callsign,
         absolute_timestamp |-> records[f[k]].absolute_timestamp,
         latitude           |-> records[f[k]].latitude,
         longitude          |-> records[f[k]].longitude,
         raw_callsign       |-> records[f[k]].raw_callsign,
         time_diff          |-> IF k = 1 THEN NaN_float
                                ELSE records[f[k]].absolute_timestamp
                                     - records[f[k - 1]].absolute_timestamp]]

\* df.iloc[k], 0-based
iloc(df, k) == df[k + 1]

-----------------------------------------------------------------------------
(* The flight summary loop *)

\* is_new_flight with `>=` for `>`
is_new_flight_ge(df, k) ==
    \/ ~Lt(iloc(df, k).time_diff, Gap)
    \/ /\ iloc(df, k).flight_callsign # iloc(df, k - 1).flight_callsign
       /\ notna(iloc(df, k).flight_callsign)

is_new_flight(df, k) ==
    \/ Gt(iloc(df, k).time_diff, Gap)
    \/ /\ iloc(df, k).flight_callsign # iloc(df, k - 1).flight_callsign
       /\ notna(iloc(df, k).flight_callsign)

\* SummaryRow with `start` used for both airports
SummaryRow_start_twice(df, start, stop, airports) ==
    [departure_airport |->
        find_nearest_airport(iloc(df, start).latitude, iloc(df, start).longitude, airports),
     arrival_airport |->
        find_nearest_airport(iloc(df, start).latitude, iloc(df, start).longitude, airports),
     departure_time |-> iloc(df, start).absolute_timestamp]

\* the row appended for the slice df.iloc[start:stop]
SummaryRow(df, start, stop, airports) ==
    [departure_airport |->
        find_nearest_airport(iloc(df, start).latitude, iloc(df, start).longitude, airports),
     arrival_airport |->
        find_nearest_airport(iloc(df, stop - 1).latitude, iloc(df, stop - 1).longitude, airports),
     departure_time |-> iloc(df, start).absolute_timestamp]

Raises(row) == row.departure_airport = ValueError \/ row.arrival_airport = ValueError

-----------------------------------------------------------------------------
(* The flight_id column of the map *)

\* Series.fillna(method='ffill')
RECURSIVE ffill(_, _)
ffill(col, last) ==
    IF col = <<>> THEN <<>>
    ELSE LET v == IF isna(Head(col)) THEN last ELSE Head(col)
         IN  <<v>> \o ffill(Tail(col), v)

\* Series.shift()
shift(col) == IF col = <<>> THEN <<>> ELSE <<NaN>> \o SubSeq(col, 1, Len(col) - 1)

\* elementwise != of two object columns: a missing value differs from everything
ne(x, y) == isna(x) \/ isna(y) \/ x # y

filled_callsign(df) == ffill([k \in 1..Len(df) |-> df[k].flight_callsign], None)

flight_segments(df) ==
    LET filled  == filled_callsign(df)
        shifted == shift(filled)
    IN  [k \in 1..Len(df) |-> Gt(df[k].time_diff, Gap) \/ ne(filled[k], shifted[k])]

\* the column as 0 and 1, without the running sum
cumsum_missing(col, acc) == [k \in 1..Len(col) |-> IF col[k] THEN 1 ELSE 0]

\* Series.cumsum() of a boolean column
RECURSIVE cumsum(_, _)
cumsum(col, acc) ==
    IF col = <<>> THEN <<>>
    ELSE LET t == acc + (IF Head(col) THEN 1 ELSE 0)
         IN  <<t>> \o cumsum(Tail(col), t)

-----------------------------------------------------------------------------
(* The script *)

\* the airports.csv files the dashboard is run with
DashboardAirportTables ==
    { <<[name |-> None, municipality |-> <<"P">>, latitude |-> 0, longitude |-> 0]>>,
      <<[name |-> <<"X">>, municipality |-> <<"P">>, latitude |-> 0, longitude |-> 0],
        [name |-> <<"Y">>, municipality |-> <<"Q">>, latitude |-> 6, longitude |-> NaN_float]>> }

Init ==
    /\ pc = "load"
    /\ airports_csv = <<>>
    /\ airports_df = <<>>
    /\ url_idx = 0
    /\ all_records = <<>>
    /\ flight_df = <<>>
    /\ i = 0
    /\ flight_start_index = 0
    /\ segments = <<>>
    /\ flight_summaries = <<>>
    /\ flight_id = <<>>
    /\ query = <<>>
    /\ result = <<>>

\* lines 78-84: the tables are loaded and the incomplete airports dropped
LoadData ==
    /\ pc = "load"
    /\ \E table \in DashboardAirportTables :
          /\ airports_csv' = table
          /\ airports_df' = dropna(table)
    /\ pc' = "fetch"
    /\ UNCHANGED <<url_idx, all_records, flight_df, i, flight_start_index, segments,
                   flight_summaries, flight_id, query, result>>

\* lines 26-28 and 81-82: a file is missing and the script stops
LoadFails ==
    /\ pc = "load"
    /\ pc' = "stopped"
    /\ UNCHANGED <<airports_csv, airports_df, url_idx, all_records, flight_df, i,
                   flight_start_index, segments, flight_summaries, flight_id, query, result>>

\* lines 47-60, one URL: the request fails, the status is not 200 or the
\* payload is malformed, and nothing is appended
FetchFails ==
    /\ pc = "fetch"
    /\ url_idx < NumUrls
    /\ url_idx' = url_idx + 1
    /\ UNCHANGED <<pc, airports_csv, airports_df, all_records, flight_df, i,
                   flight_start_index, segments, flight_summaries, flight_id, query, result>>

\* lines 47-60, one URL: the records of the file's trace are appended
FetchTrace ==
    /\ pc = "fetch"
    /\ url_idx < NumUrls
    /\ \E file_timestamp \in FileTimestamps :
       \E trace \in SeqsUpTo(TraceRecords, MaxRecords - Len(all_records)) :
          /\ trace # <<>>
          /\ all_records' = all_records \o ParseTrace(file_timestamp, trace, None)
    /\ url_idx' = url_idx + 1
    /\ UNCHANGED <<pc, airports_csv, airports_df, flight_df, i, flight_start_index,
                   segments, flight_summaries, flight_id, query, result>>

\* lines 62-63 and 97-99: no record at all, the script stops
NoData ==
    /\ pc = "fetch"
    /\ url_idx = NumUrls
    /\ all_records = <<>>
    /\ pc' = "stopped"
    /\ UNCHANGED <<airports_csv, airports_df, url_idx, all_records, flight_df, i,
                   flight_start_index, segments, flight_summaries, flight_id, query, result>>

\* lines 65 and 111-116: the frame is sorted, time_diff computed, the loop set up
SortFrame ==
    /\ pc = "fetch"
    /\ url_idx = NumUrls
    /\ all_records # <<>>
    /\ \E f \in SortOrders(all_records) : flight_df' = SortedFrame(all_records, f)
    /\ flight_summaries' = <<>>
    /\ flight_start_index' = 0
    /\ i' = 1
    /\ pc' = "loop"
    /\ UNCHANGED <<airports_csv, airports_df, url_idx, all_records, segments,
                   flight_id, query, result>>

\* the slice df.iloc[start:stop] is cut and its row appended (lines 121-127 and
\* 130-136); find_nearest_airport raising ends the script
CutSegment(start, stop, next_pc) ==
    IF start < stop
    THEN LET row == SummaryRow(flight_df, start, stop, airports_df)
         IN  /\ segments' = Append(segments, [start |-> start, stop |-> stop])
             /\ query' = <<iloc(flight_df, stop - 1).latitude,
                           iloc(flight_df, stop - 1).longitude>>
             /\ result' = row.arrival_airport
             /\ IF Raises(row)
                THEN /\ pc' = "error"
                     /\ UNCHANGED flight_summaries
                ELSE /\ pc' = next_pc
                     /\ flight_summaries' = Append(flight_summaries, row)
    ELSE /\ pc' = next_pc
         /\ UNCHANGED <<segments, flight_summaries, query, result>>

\* lines 117-128: one iteration of the loop
LoopStep ==
    /\ pc = "loop"
    /\ i < Len(flight_df)
    /\ IF is_new_flight(flight_df, i)
       THEN /\ CutSegment(flight_start_index, i, "loop")
            /\ flight_start_index' = i
       ELSE UNCHANGED <<pc, segments, flight_summaries, flight_start_index, query, result>>
    /\ i' = i + 1
    /\ UNCHANGED <<airports_csv, airports_df, url_idx, all_records, flight_df, flight_id>>

\* lines 130-138: the last segment
LastSegment ==
    /\ pc = "loop"
    /\ i = Len(flight_df)
    /\ CutSegment(flight_start_index, Len(flight_df), "map")
    /\ UNCHANGED <<airports_csv, airports_df, url_idx, all_records, flight_df, i,
                   flight_start_index, flight_id>>

\* lines 173-175: the flight_id column
AssignFlightId ==
    /\ pc = "map"
    /\ flight_id' = cumsum(flight_segments(flight_df), 0)
    /\ pc' = "done"
    /\ UNCHANGED <<airports_csv, airports_df, url_idx, all_records, flight_df, i,
                   flight_start_index, segments, flight_summaries, query, result>>

Next ==
    \/ LoadData
    \/ LoadFails
    \/ FetchFails
    \/ FetchTrace
    \/ NoData
    \/ SortFrame
    \/ LoopStep
    \/ LastSegment
    \/ AssignFlightId

Spec == Init /\ [][Next]_vars

-----------------------------------------------------------------------------
(* The resolver on its own: any airport table, any query coordinate *)

InitResolver ==
    /\ pc = "resolver_load"
    /\ airports_csv = <<>>
    /\ airports_df = <<>>
    /\ url_idx = 0
    /\ all_records = <<>>
    /\ flight_df = <<>>
    /\ i = 0
    /\ flight_start_index = 0
    /\ segments = <<>>
    /\ flight_summaries = <<>>
    /\ flight_id = <<>>
    /\ query = <<>>
    /\ result = <<>>

\* lines 79 and 84
LoadAirports ==
    /\ pc = "resolver_load"
    /\ \E table \in SeqsUpTo(AirportRows, MaxAirports) :
          /\ airports_csv' = table
          /\ airports_df' = dropna(table)
    /\ pc' = "resolver_query"
    /\ UNCHANGED <<url_idx, all_records, flight_df, i, flight_start_index, segments,
                   flight_summaries, flight_id, query, result>>

\* lines 67-73, one call
Resolve ==
    /\ pc = "resolver_query"
    /\ \E lat \in QueryLats, lon \in QueryLons :
          /\ query' = <<lat, lon>>
          /\ result' = find_nearest_airport(lat, lon, airports_df)
    /\ pc' = "resolver_done"
    /\ UNCHANGED <<airports_csv, airports_df, url_idx, all_records, flight_df, i,
                   flight_start_index, segments, flight_summaries, flight_id>>

NextResolver == LoadAirports \/ Resolve

SpecResolver == InitResolver /\ [][NextResolver]_vars

-----------------------------------------------------------------------------
(* Vocabulary of the properties.  Reports are numbered 1..Len(flight_df)   *)
(* in sorted order.                                                        *)

Reports == 1..Len(flight_df)
Adjacent == {k \in Reports : k > 1}

\* seconds between report k and the report before it
Delta(k) == flight_df[k].absolute_timestamp - flight_df[k - 1].absolute_timestamp

\* the forward-filled callsign of report k: the callsign of the nearest report
\* at or before k, in sorted order, whose own callsign is not blank
ForwardFilled(k) ==
    LET seen == {j \in 1..k : flight_df[j].raw_callsign # None}
    IN  IF seen = {} THEN None
        ELSE flight_df[CHOOSE j \in seen : \A h \in seen : h <= j].raw_callsign

\* no two reports have the same timestamp: every sort gives the same order
StrictlySorted == \A k \in Adjacent : Delta(k) > 0

\* the summary loop has cut all its segments
SummaryCut == pc \in {"map", "done"}
\* the flight_id column is assigned
MapDone == pc = "done"

\* reports at which a segment of the summary loop starts
SummaryStarts == {segments[r].start + 1 : r \in 1..Len(segments)}
\* reports at which the flight_id changes, and the first report
FlightIdStarts == {k \in 1..Len(flight_id) : k = 1 \/ flight_id[k] # flight_id[k - 1]}

\* reports of the segment the r-th summary row was built from
RowReports(r) == (segments[r].start + 1)..segments[r].stop

-----------------------------------------------------------------------------
(* C1 *)

\* C1, for the segments of the summary loop: two adjacent reports at most 4
\* hours apart whose forward-filled callsigns are equal (the same string, or
\* both blank) are in the same segment.  Stated for frames without equal
\* timestamps.
C1_CallsignContinuity ==
    (SummaryCut /\ StrictlySorted) =>
        \A k \in Adjacent :
            (Delta(k) <= Gap /\ ForwardFilled(k) = ForwardFilled(k - 1))
                => k \notin SummaryStarts

\* C1, for the flight_id column of the map
C1_CallsignContinuityMap ==
    (MapDone /\ StrictlySorted) =>
        \A k \in Adjacent :
            (Delta(k) <= Gap /\ ForwardFilled(k) = ForwardFilled(k - 1))
                => k \notin FlightIdStarts

-----------------------------------------------------------------------------
(* C2 *)

\* C2: a report more than 4 hours after the report before it starts a new
\* segment, in the summary loop and in the flight_id column, whatever the
\* callsigns; a report exactly 4 hours after a report of the same non-blank
\* callsign does not.
C2_GapRule ==
    \A k \in Adjacent :
        /\ (SummaryCut /\ Delta(k) > Gap) => k \in SummaryStarts
        /\ (MapDone /\ Delta(k) > Gap) => flight_id[k] = flight_id[k - 1] + 1
        /\ (/\ Delta(k) = Gap
            /\ flight_df[k].raw_callsign # None
            /\ flight_df[k].raw_callsign = flight_df[k - 1].raw_callsign)
           => /\ SummaryCut => k \notin SummaryStarts
              /\ MapDone => flight_id[k] = flight_id[k - 1]

\* a report of the same callsign more than 4 hours later was split off, and
\* a report of the same callsign exactly 4 hours later was not
C2_Witness ==
    /\ MapDone
    /\ \E k \in Adjacent :
          /\ Delta(k) > Gap
          /\ flight_df[k].raw_callsign # None
          /\ flight_df[k].raw_callsign = flight_df[k - 1].raw_callsign
          /\ k \in SummaryStarts /\ k \in FlightIdStarts
    /\ \E k \in Adjacent :
          /\ Delta(k) = Gap
          /\ flight_df[k].raw_callsign # None
          /\ flight_df[k].raw_callsign = flight_df[k - 1].raw_callsign
          /\ k \notin SummaryStarts /\ k \notin FlightIdStarts

-----------------------------------------------------------------------------
(* C3 *)

\* C3: every row of the flight summary is built from a segment of at least 2
\* reports.
C3_NoSingleReportRow ==
    \A r \in 1..Len(flight_summaries) : Cardinality(RowReports(r)) >= 2

-----------------------------------------------------------------------------
(* C4 *)

\* C4: every row of the flight summary is built from a segment with a
\* non-blank forward-filled callsign.
C4_NoBlankSegmentRow ==
    \A r \in 1..Len(flight_summaries) :
        \E k \in RowReports(r) : ForwardFilled(k) # None

-----------------------------------------------------------------------------
(* C7 *)

\* C7: every report has one flight_id, the first report starts the first
\* segment, the ids go up by 0 or 1 from a report to the next; the slices of
\* the summary loop follow one another from the first report to the last,
\* none of them empty.
C7_Partition ==
    /\ MapDone =>
          /\ Len(flight_id) = Len(flight_df)
          /\ flight_id[1] = 1
          /\ \A k \in Adjacent : flight_id[k] - flight_id[k - 1] \in {0, 1}
    /\ SummaryCut =>
          /\ segments[1].start = 0
          /\ segments[Len(segments)].stop = Len(flight_df)
          /\ \A r \in 1..Len(segments) : segments[r].start < segments[r].stop
          /\ \A r \in 1..(Len(segments) - 1) : segments[r].stop = segments[r + 1].start

\* three reports in two segments, by both segmentations
C7_Witness ==
    /\ MapDone
    /\ Len(flight_df) = 3
    /\ Len(segments) = 2
    /\ flight_id = <<1, 1, 2>>

-----------------------------------------------------------------------------
(* C8 *)

\* C8: in the sorted frame, a report whose own callsign is blank carries the
\* callsign of the nearest preceding report whose own callsign is not blank,
\* and stays blank when there is none: in the flight_callsign column the
\* summary loop reads and in the filled_callsign column the flight_id is
\* computed from.  Stated for frames without equal timestamps.
C8_ForwardFill ==
    (pc \in {"loop", "map", "done"} /\ StrictlySorted) =>
        \A k \in Reports :
            flight_df[k].raw_callsign = None
                => /\ flight_df[k].flight_callsign = ForwardFilled(k)
                   /\ filled_callsign(flight_df)[k] = ForwardFilled(k)

\* C8, for the filled_callsign column alone
C8_ForwardFillMap ==
    (pc \in {"loop", "map", "done"} /\ StrictlySorted) =>
        \A k \in Reports :
            flight_df[k].raw_callsign = None
                => filled_callsign(flight_df)[k] = ForwardFilled(k)

-----------------------------------------------------------------------------
(* C9 *)

\* C9: a row's departure_airport is the resolver's result for the first
\* report of its segment, its arrival_airport the result for the last, its
\* departure_time the first report's timestamp; departure_time does not
\* decrease down the table.
C9_SummaryRows ==
    /\ \A r \in 1..Len(flight_summaries) :
          LET first == flight_df[segments[r].start + 1]
              last  == flight_df[segments[r].stop]
              row   == flight_summaries[r]
          IN  /\ row.departure_airport =
                    find_nearest_airport(first.latitude, first.longitude, airports_df)
              /\ row.arrival_airport =
                    find_nearest_airport(last.latitude, last.longitude, airports_df)
              /\ row.departure_time = first.absolute_timestamp
    /\ \A r \in 1..(Len(flight_summaries) - 1) :
          flight_summaries[r].departure_time <= flight_summaries[r + 1].departure_time

\* two rows, the first from a segment that departs at one airport and
\* arrives somewhere else
C9_Witness ==
    /\ MapDone
    /\ Len(flight_summaries) = 2
    /\ Cardinality(RowReports(1)) = 2
    /\ flight_summaries[1].departure_airport # flight_summaries[1].arrival_airport
    /\ flight_summaries[1].departure_time < flight_summaries[2].departure_time

-----------------------------------------------------------------------------
(* C10 *)

\* C10: the summary loop starts its segments at the reports where the
\* flight_id changes.  Stated for frames without equal timestamps.
C10_SegmentationsAgree == (MapDone /\ StrictlySorted) => SummaryStarts = FlightIdStarts

\* C10, for frames whose first report has a callsign of its own
C10_SegmentationsAgreeNamed ==
    (MapDone /\ StrictlySorted /\ flight_df[1].raw_callsign # None)
        => SummaryStarts = FlightIdStarts

-----------------------------------------------------------------------------
(* C5 and C6, under SpecResolver *)

Resolved == pc = "resolver_done"

\* squared distance, in degrees, from the query to the k-th airport
D2(k) ==
    (airports_df[k].latitude - query[1]) * (airports_df[k].latitude - query[1])
  + (airports_df[k].longitude - query[2]) * (airports_df[k].longitude - query[2])

\* the first airport, in table order, no airport is nearer than
FirstNearest ==
    CHOOSE k \in 1..Len(airports_df) :
        /\ \A j \in 1..Len(airports_df) : D2(k) <= D2(j)
        /\ \A j \in 1..(k - 1) : D2(j) > D2(k)

\* C5 as claimed: the sentinel is returned if and only if the minimum squared
\* distance exceeds 0.25; at 0.25 or less the label of the first nearest
\* airport is.
C5_ResolverThreshold ==
    (Resolved /\ airports_df # <<>>) =>
        /\ result = SENTINEL <=> D2(FirstNearest) > Threshold
        /\ D2(FirstNearest) <= Threshold => result = Label(airports_df[FirstNearest])

\* C5 as amended: the sentinel is returned if and only if the minimum squared
\* distance is 0.25 or more; below 0.25 the label of the first nearest airport
\* is.
C5_ResolverThresholdStrict ==
    (Resolved /\ airports_df # <<>>) =>
        /\ result = SENTINEL <=> D2(FirstNearest) >= Threshold
        /\ D2(FirstNearest) < Threshold => result = Label(airports_df[FirstNearest])

\* two airports both at squared distance 0.25 from the query: the sentinel
C5_Witness ==
    /\ Resolved
    /\ Len(airports_df) = 2
    /\ D2(1) = Threshold /\ D2(2) = Threshold
    /\ airports_df[1] # airports_df[2]
    /\ result = SENTINEL

\* two airports equally near, nearer than 0.25: the first one's label
C5_WitnessTie ==
    /\ Resolved
    /\ Len(airports_df) = 2
    /\ D2(1) = D2(2) /\ D2(1) < Threshold
    /\ airports_df[1] # airports_df[2]
    /\ result = Label(airports_df[1])

\* C6: resolving against an empty airport table ends in the error, never in
\* the sentinel or a label; against a table with an airport it never does.
C6_EmptyTableFails ==
    Resolved => (airports_df = <<>> <=> result = ValueError)

\* a table all of whose rows were dropped, and the error
C6_Witness ==
    /\ Resolved
    /\ Len(airports_csv) = 2
    /\ airports_df = <<>>
    /\ result = ValueError

====
